---- MODULE Spec2Model ----
(***************************************************************************)
(* A model of the Excel analysis bot: ExcelStore (excel_store.py),         *)
(* FeedbackStore (feedback_store.py), the planner glue (llm_agent.py) and  *)
(* the Streamlit script (app.py).                                          *)
(*                                                                         *)
(* Text is modelled as a sequence of atoms.  Names (file, sheet, column    *)
(* and table names) are sequences of single characters.  SQL text and      *)
(* free text are sequences of lexical atoms: a keyword, a blank, a         *)
(* semicolon or an identifier; Python's str methods act atom by atom.      *)
(* Python's None and SQL's NULL are the value None where a text may stand, *)
(* NullRating where a rating may, NoId where a record id may.              *)
(*                                                                         *)
(* The chat transcript (st.session_state.messages) and what Streamlit      *)
(* draws are not state any operation below reads; they are left out.       *)
(***************************************************************************)
EXTENDS Integers, Sequences, FiniteSets, TLC

VARIABLES
    tables,          \* session -> ExcelStore.tables, a dict in insertion order
    con,             \* session -> the DuckDB connection: registered views, statements run
    lastAdd,         \* the last add_excel_file call and how it ended
    lastRun,         \* the last run_sql call and how it ended
    catalog_sig,     \* session -> the signature computed for the current catalog
    feedback,        \* the rows of the feedback table, row i has id i
    history,         \* per row: what add_feedback calls it has received
    examples,        \* the last best_examples call and the rows it returned
    few_shots,       \* the last _compact_examples call and the list it returned
    uploads,         \* the files the st.file_uploader widget holds
    last_record_id,  \* st.session_state.last_record_id
    last_sql,        \* st.session_state.last_sql
    last_question,   \* st.session_state.last_question
    lastAsk          \* the last question the script handled and how it ended

vars == <<tables, con, lastAdd, lastRun, catalog_sig, feedback, history,
          examples, few_shots, uploads, last_record_id, last_sql, last_question,
          lastAsk>>

storeVars == <<tables, con, lastAdd, lastRun, catalog_sig>>
logVars == <<feedback, history, examples, few_shots>>
appVars == <<uploads, last_record_id, last_sql, last_question, lastAsk>>

\* None / NULL in the place of a text: a text no input is made of.
None == <<"None">>

\* NULL in the place of a rating (1 good, -1 bad).
NullRating == 0

\* None in the place of a record id; ids start at 1.
NoId == 0

\* No call of the kind was made yet, or another operation came after it.
NoCall == [called |-> FALSE]

\* Two browser sessions, each with its own ExcelStore (app.py, session state).
Sessions == {"s1", "s2"}

-----------------------------------------------------------------------------
\* Bounds of the model.

\* Tables one catalog may hold.
MaxTables == 3
\* Tables a catalog may hold where two catalogs are compared.
MaxSigTables == 2
\* Atoms in a query handed to run_sql.
MaxSqlLen == 4
\* Statements the engine runs in the run_sql specification.
MaxExec == 2
\* Rows of the feedback table.
MaxRecords == 2
\* The largest limit passed to best_examples.
MaxLimit == 2
\* Rows of the feedback table where the few-shot list is built.
MaxRows == 6
\* Tables the catalog of the running app may hold.
MaxAppTables == 2
\* Questions the running app answers.
MaxAppRecords == 2

-----------------------------------------------------------------------------
\* Python's str and list operations.

Letters == {"a", "b", "c", "d", "e", "l", "s", "t", "x"}
Digits == {"0", "1", "2", "3", "4", "5", "6", "7", "8", "9"}
Whitespace == {" ", "\n"}

\* Code point order of the characters names are made of.
Ord(c) ==
    CASE c = "\n" -> 10 [] c = " " -> 32 [] c = "-" -> 45 [] c = "." -> 46
      [] c = "0" -> 48 [] c = "1" -> 49 [] c = "2" -> 50 [] c = "3" -> 51
      [] c = "4" -> 52 [] c = "5" -> 53 [] c = "6" -> 54 [] c = "7" -> 55
      [] c = "8" -> 56 [] c = "9" -> 57 [] c = "_" -> 95
      [] c = "a" -> 97 [] c = "b" -> 98 [] c = "c" -> 99 [] c = "d" -> 100
      [] c = "e" -> 101 [] c = "l" -> 108 [] c = "s" -> 115 [] c = "t" -> 116
      [] c = "x" -> 120

\* s[:n]
Take(s, n) == IF Len(s) <= n THEN s ELSE SubSeq(s, 1, n)

\* s.lstrip(chars)
LStrip(s, chars) ==
    LET keep == {i \in 1..Len(s) : s[i] \notin chars}
        first == CHOOSE i \in keep : \A j \in keep : i <= j
    IN IF keep = {} THEN <<>> ELSE SubSeq(s, first, Len(s))

\* s.rstrip(chars)
RStrip(s, chars) ==
    LET keep == {i \in 1..Len(s) : s[i] \notin chars}
        last == CHOOSE i \in keep : \A j \in keep : j <= i
    IN IF keep = {} THEN <<>> ELSE SubSeq(s, 1, last)

\* s.strip(chars); s.strip() is Strip(s, Whitespace)
Strip(s, chars) == LStrip(RStrip(s, chars), chars)

\* str(i) for i >= 0
RECURSIVE Str(_)
Str(i) ==
    LET d == <<"0", "1", "2", "3", "4", "5", "6", "7", "8", "9">>[(i % 10) + 1]
    IN IF i < 10 THEN <<d>> ELSE Append(Str(i \div 10), d)

\* a < b for two str, as sorted() compares them
StrLess(a, b) ==
    LET differ == {i \in 1..Len(a) : i <= Len(b) /\ a[i] # b[i]}
        first == CHOOSE i \in differ : \A j \in differ : i <= j
    IN IF differ = {} THEN Len(a) < Len(b) ELSE Ord(a[first]) < Ord(b[first])

\* the elements of a sequence
Range(s) == {s[i] : i \in 1..Len(s)}

\* the sequences over S of length lo..hi
SeqsOf(S, lo, hi) == UNION {[1..n -> S] : n \in lo..hi}

-----------------------------------------------------------------------------
\* excel_store.py: safe_name

\* [a-zA-Z0-9_]
IsWordChar(c) == c \in Letters \cup Digits \cup {"_"}

\* the indices of s, in order
Indices(s) == [i \in 1..Len(s) |-> i]

\* re.sub(r"[^a-zA-Z0-9_]+", "_", s): each run of other characters becomes one "_"
SubNonWord(s) ==
    LET starts(i) == IsWordChar(s[i]) \/ i = 1 \/ IsWordChar(s[i - 1])
        kept == SelectSeq(Indices(s), starts)
    IN [k \in 1..Len(kept) |-> IF IsWordChar(s[kept[k]]) THEN s[kept[k]] ELSE "_"]

\* re.sub(r"_{2,}", "_", s): each run of underscores becomes one "_"
SubUnderscores(s) ==
    LET starts(i) == s[i] # "_" \/ i = 1 \/ s[i - 1] # "_"
        kept == SelectSeq(Indices(s), starts)
    IN [k \in 1..Len(kept) |-> s[kept[k]]]

NameCap == 80

DefaultName == <<"t", "a", "b", "l", "e">>

safe_name(s) ==
    LET s1 == SubNonWord(Strip(s, Whitespace))
        s2 == Strip(SubUnderscores(s1), {"_"})
    IN IF s2 # <<>> THEN Take(s2, NameCap) ELSE DefaultName

-----------------------------------------------------------------------------
\* excel_store.py: ExcelStore.add_excel_file

\* file_name.rsplit(".", 1)[0]: what precedes the last "."
BaseName(file_name) ==
    LET dots == {i \in 1..Len(file_name) : file_name[i] = "."}
        last == CHOOSE i \in dots : \A j \in dots : j <= i
    IN IF dots = {} THEN file_name ELSE SubSeq(file_name, 1, last - 1)

\* the keys of a dict
Keys(d) == {d[i].key : i \in 1..Len(d)}

\* d[k]
Get(d, k) == (CHOOSE i \in 1..Len(d) : d[i].key = k)

\* d[k] = v: an existing key keeps its place, a new key goes last
DictSet(d, k, v) ==
    IF k \in Keys(d)
    THEN [i \in 1..Len(d) |-> IF d[i].key = k THEN [key |-> k, val |-> v] ELSE d[i]]
    ELSE Append(d, [key |-> k, val |-> v])

\* The loop run once only: the first suffix is taken whether or not it is free.
ResolveNameOnce(tname, original, i, keys) ==
    IF tname \in keys THEN original \o <<"_">> \o Str(i) ELSE tname

\* the while loop that makes tname unique
RECURSIVE ResolveName(_, _, _, _)
ResolveName(tname, original, i, keys) ==
    IF tname \in keys
    THEN ResolveName(original \o <<"_">> \o Str(i), original, i + 1, keys)
    ELSE tname

\* a list with a repeated element
HasDuplicates(s) == \E i, j \in 1..Len(s) : i # j /\ s[i] = s[j]

\* The body of the for loop, for one sheet, on the state st = [tables, views, ok].
\* register_fails: con.register raises.  A DataFrame whose normalized column
\* names repeat has no df[c].dtype: the metadata expression raises after the
\* table was registered.
AddSheet(st, file_name, sheet, register_fails) ==
    LET cols == [i \in 1..Len(sheet.columns) |-> safe_name(sheet.columns[i])]
        base == safe_name(BaseName(file_name))
        original == safe_name(base \o <<"_", "_">> \o sheet.name)
        tname == ResolveName(original, original, 2, Keys(st.tables))
        meta == [file |-> file_name, sheet |-> sheet.name,
                 rows |-> sheet.rows, cols |-> cols]
    IN IF register_fails THEN [st EXCEPT !.ok = FALSE]
       ELSE IF HasDuplicates(cols)
       THEN [st EXCEPT !.views = @ \cup {tname}, !.ok = FALSE]
       ELSE [tables |-> DictSet(st.tables, tname, meta),
             views |-> st.views \cup {tname},
             ok |-> TRUE]

\* The for loop over the first n sheets; an exception ends it.
RECURSIVE AddSheets(_, _, _, _, _)
AddSheets(st, file_name, sheets, n, fail_at) ==
    IF n = 0 THEN st
    ELSE LET before == AddSheets(st, file_name, sheets, n - 1, fail_at)
         IN IF before.ok
            THEN AddSheet(before, file_name, sheets[n], fail_at = n)
            ELSE before

\* add_excel_file(file_name, file_bytes) on the store st = [tables, views, ok].
\* fail_at names the sheet at which con.register raises (0: none).
\* pd.ExcelFile raises on bytes that are no workbook, before anything else.
AddExcelFile(st, f, fail_at) ==
    IF f.valid
    THEN AddSheets(st, f.name, f.sheets, Len(f.sheets), fail_at)
    ELSE [st EXCEPT !.ok = FALSE]

\* The store of session s.
Store(s) == [tables |-> tables[s], views |-> con[s].views, ok |-> TRUE]

\* A call of add_excel_file on the store of session s.
add_excel_file(s, f, fail_at) ==
    LET end == AddExcelFile(Store(s), f, fail_at)
    IN /\ tables' = [tables EXCEPT ![s] = end.tables]
       /\ con' = [con EXCEPT ![s].views = end.views]
       /\ lastAdd' = [called |-> TRUE, session |-> s, before |-> tables[s],
                      file |-> f, ok |-> end.ok]
       /\ lastRun' = NoCall
       /\ catalog_sig' = [catalog_sig EXCEPT ![s] = NoCall]

-----------------------------------------------------------------------------
\* excel_store.py: ExcelStore.catalog_signature

\* sorted(keys): the keys in ascending order
RECURSIVE Sorted(_)
Sorted(keys) ==
    IF keys = {} THEN <<>>
    ELSE LET least == CHOOSE k \in keys : \A other \in keys \ {k} : StrLess(k, other)
         IN <<least>> \o Sorted(keys \ {least})

\* {t: self.tables[t]["cols"] for t in sorted(self.tables.keys())}
Compact(d) ==
    LET order == Sorted(Keys(d))
    IN [i \in 1..Len(order) |-> [key |-> order[i], val |-> d[Get(d, order[i])].val.cols]]

\* json.dumps(compact, sort_keys=True): the pairs of the dict, in the order of
\* their keys; the text determines the pairs and the pairs the text.
JsonDumps(compact) ==
    LET order == Sorted(Keys(compact))
    IN [i \in 1..Len(order) |-> <<order[i], compact[Get(compact, order[i])].val>>]

\* hashlib.sha256(s).hexdigest()[:16], taken to be injective: the digest
\* stands for the text it was made from.
Sha256Hex16(s) == [digest_of |-> s]

catalog_signature_unsorted(d) ==
    Sha256Hex16([i \in 1..Len(d) |-> <<d[i].key, d[i].val.cols>>])

catalog_signature(d) == Sha256Hex16(JsonDumps(Compact(d)))

-----------------------------------------------------------------------------
\* excel_store.py: ExcelStore._validate_sql and run_sql; llm_agent.py: _sanitize_sql

\* The atoms SQL text is made of in the model.
SqlAtoms == {"SELECT", "with", "Drop", " ", ";", "x"}

\* c.lower() for one atom
LowerAtom(c) ==
    CASE c = "SELECT" -> "select" [] c = "Drop" -> "drop" [] c = "FROM" -> "from"
      [] c = "LIMIT" -> "limit" [] OTHER -> c

\* s.lower()
Lower(s) == [i \in 1..Len(s) |-> LowerAtom(s[i])]

\* sub in s
Contains(s, sub) ==
    \E i \in 0..(Len(s) - Len(sub)) : SubSeq(s, i + 1, i + Len(sub)) = sub

\* s.startswith(prefix)
StartsWith(s, prefix) == Len(s) >= Len(prefix) /\ SubSeq(s, 1, Len(prefix)) = prefix

\* (sql or "").strip().rstrip(";").strip()
TrimSql(sql) ==
    LET s == IF sql = None THEN <<>> ELSE sql
    IN Strip(RStrip(Strip(s, Whitespace), {";"}), Whitespace)

\* the list named banned: each keyword with the blank that follows it
Banned ==
    {<<"drop", " ">>, <<"delete", " ">>, <<"update", " ">>, <<"insert", " ">>,
     <<"create", " ">>, <<"alter", " ">>, <<"truncate", " ">>, <<"grant", " ">>,
     <<"revoke", " ">>}

\* The three checks, in the order of the code; the first that fails raises.
Validate(sql) ==
    LET s == TrimSql(sql)
        lowered == Lower(s)
    IN IF ";" \in Range(s)
       THEN [ok |-> FALSE, error |-> "semicolon"]
       ELSE IF \E b \in Banned : Contains(lowered, b)
       THEN [ok |-> FALSE, error |-> "destructive"]
       ELSE IF ~(StartsWith(lowered, <<"select">>) \/ StartsWith(lowered, <<"with">>))
       THEN [ok |-> FALSE, error |-> "not a select"]
       ELSE [ok |-> TRUE, sql |-> s]

\* The checks without the scan for banned keywords.
ValidateNoBanned(sql) ==
    LET s == TrimSql(sql)
        lowered == Lower(s)
    IN IF ";" \in Range(s)
       THEN [ok |-> FALSE, error |-> "semicolon"]
       ELSE IF ~(StartsWith(lowered, <<"select">>) \/ StartsWith(lowered, <<"with">>))
       THEN [ok |-> FALSE, error |-> "not a select"]
       ELSE [ok |-> TRUE, sql |-> s]

\* No check at all: the trimmed text is returned.
ValidateNothing(sql) == [ok |-> TRUE, sql |-> TrimSql(sql)]

\* ExcelStore._validate_sql
_validate_sql(sql) == Validate(sql)

\* llm_agent._sanitize_sql: the same checks as _validate_sql
_sanitize_sql(sql) == Validate(sql)

DefaultLimit == 200

\* f"SELECT * FROM ({sql}) q LIMIT {int(limit)}"
Wrapped(sql, limit) ==
    <<"SELECT", " ", "*", " ", "FROM", " ", "(">> \o sql
        \o <<")", " ", "q", " ", "LIMIT", " ">> \o Str(limit)

\* run_sql(sql): the statement reaches con.execute only when _validate_sql
\* returned.  engine_raises: DuckDB rejects the statement it was given.
RunSqlResult(sql, engine_raises) ==
    LET v == _validate_sql(sql)
    IN IF v.ok
       THEN [executed |-> TRUE, stmt |-> Wrapped(v.sql, DefaultLimit),
             outcome |-> IF engine_raises THEN "engine error" ELSE "rows"]
       ELSE [executed |-> FALSE, stmt |-> None, outcome |-> v.error]

\* What the call leaves in lastRun.
RunRecord(s, sql, r, nexec_before) ==
    [called |-> TRUE, session |-> s, sql |-> sql, executed |-> r.executed,
     stmt |-> r.stmt, nexec_before |-> nexec_before, outcome |-> r.outcome]

\* A call of run_sql on the store of session s.
run_sql(s, sql, engine_raises) ==
    LET r == RunSqlResult(sql, engine_raises)
    IN /\ con' = [con EXCEPT ![s].nexec = IF r.executed THEN @ + 1 ELSE @]
       /\ lastRun' = RunRecord(s, sql, r, con[s].nexec)

-----------------------------------------------------------------------------
\* feedback_store.py: FeedbackStore

\* What the history of a new row says: no add_feedback call yet.
NewHistory == [nfb |-> 0, supplied |-> NullRating, last |-> NullRating, corrected |-> FALSE]

\* INSERT INTO feedback(question, catalog_sig, generated_sql): the other
\* columns take their defaults, created_at the second the clock shows.
NewRow(question, sig, generated_sql, now) ==
    [question |-> question, catalog_sig |-> sig, generated_sql |-> generated_sql,
     corrected_sql |-> None, rating |-> NullRating, feedback_text |-> None,
     created_at |-> now]

\* add_record(question, catalog_sig, generated_sql); the row's id is its place.
add_record(question, sig, generated_sql, now) ==
    /\ feedback' = Append(feedback, NewRow(question, sig, generated_sql, now))
    /\ history' = Append(history, NewHistory)

\* The SET list with rating always in it: a call without a rating stores NULL.
UpdateRowAlwaysRating(row, rating, feedback_text, corrected_sql) ==
    [row EXCEPT !.rating = rating,
                !.feedback_text = feedback_text,
                !.corrected_sql = corrected_sql]

\* The SET list with corrected_sql only when one was passed.
UpdateRowKeepCorrection(row, rating, feedback_text, corrected_sql) ==
    [row EXCEPT !.rating = IF rating # NullRating THEN rating ELSE @,
                !.feedback_text = feedback_text,
                !.corrected_sql = IF corrected_sql # None THEN corrected_sql ELSE @]

\* The SET list add_feedback builds: rating only when one was passed,
\* feedback_text and corrected_sql always.
UpdateRow(row, rating, feedback_text, corrected_sql) ==
    [row EXCEPT !.rating = IF rating # NullRating THEN rating ELSE @,
                !.feedback_text = feedback_text,
                !.corrected_sql = corrected_sql]

\* The UPDATE without its WHERE clause: every row is written.
UpdateEveryRow(rows, record_id, rating, feedback_text, corrected_sql) ==
    [i \in 1..Len(rows) |-> UpdateRow(rows[i], rating, feedback_text, corrected_sql)]

\* UPDATE feedback SET ... WHERE id=?: the row with that id, if there is one.
UpdateWhereId(rows, record_id, rating, feedback_text, corrected_sql) ==
    [i \in 1..Len(rows) |->
        IF i = record_id
        THEN UpdateRow(rows[i], rating, feedback_text, corrected_sql)
        ELSE rows[i]]

\* add_feedback(record_id, rating, feedback_text, corrected_sql)
add_feedback(record_id, rating, feedback_text, corrected_sql) ==
    /\ feedback' = UpdateWhereId(feedback, record_id, rating, feedback_text, corrected_sql)
    /\ history' = [i \in 1..Len(history) |->
                     IF i = record_id
                     THEN [nfb |-> IF history[i].nfb < 2 THEN history[i].nfb + 1 ELSE 2,
                           supplied |-> IF rating # NullRating THEN rating
                                        ELSE history[i].supplied,
                           last |-> rating,
                           corrected |-> history[i].corrected
                                         \/ corrected_sql \notin {None, <<>>}]
                     ELSE history[i]]

\* corrected_sql IS NOT NULL AND TRIM(corrected_sql) <> '': TRIM removes blanks
HasCorrection(row) ==
    row.corrected_sql # None /\ Strip(row.corrected_sql, {" "}) # <<>>

\* CASE WHEN ... THEN 0 ELSE 1 END
SortGroup(row) == IF HasCorrection(row) THEN 0 ELSE 1

\* ORDER BY group, created_at DESC: row a may stand before row b
MayPrecede(a, b) ==
    \/ SortGroup(a) < SortGroup(b)
    \/ SortGroup(a) = SortGroup(b) /\ a.created_at >= b.created_at

\* The ids of the rows WHERE catalog_sig=? AND rating=1
Matching(rows, sig) ==
    {i \in 1..Len(rows) : rows[i].catalog_sig = sig /\ rows[i].rating = 1}

\* The orders of a set of ids in which no row stands before one that must
\* precede it: any row that may stand first, then an order of the rest.
RECURSIVE SortedOrders(_, _)
SortedOrders(rows, ids) ==
    IF ids = {} THEN {<<>>}
    ELSE UNION {{<<m>> \o rest : rest \in SortedOrders(rows, ids \ {m})} :
                  m \in {x \in ids : \A y \in ids : MayPrecede(rows[x], rows[y])}}

\* The lists of ids best_examples(catalog_sig, limit) may return: SQL leaves
\* the order of rows with equal sort keys open.
best_examples(rows, sig, limit) ==
    {Take(p, limit) : p \in SortedOrders(rows, Matching(rows, sig))}

\* top_examples: the alias of best_examples
top_examples(rows, sig, limit) == best_examples(rows, sig, limit)

-----------------------------------------------------------------------------
\* llm_agent.py: _compact_examples

MaxExamples == 5

\* a or b
Or(a, b) == IF a # None /\ a # <<>> THEN a ELSE b

\* The row with the generated query preferred to the corrected one.
FewShotPreferGenerated(ex) ==
    LET q == Strip(Or(ex.question, <<>>), Whitespace)
        sql == Strip(Or(Or(ex.generated_sql, ex.corrected_sql), <<>>), Whitespace)
    IN IF q # <<>> /\ sql # <<>> THEN [id |-> ex.id, q |-> q, sql |-> sql] ELSE [id |-> NoId]

\* One row of the few-shot list; id NoId where the row is skipped.
FewShot(ex) ==
    LET q == Strip(Or(ex.question, <<>>), Whitespace)
        sql == Strip(Or(Or(ex.corrected_sql, ex.generated_sql), <<>>), Whitespace)
    IN IF q # <<>> /\ sql # <<>> THEN [id |-> ex.id, q |-> q, sql |-> sql] ELSE [id |-> NoId]

\* _compact_examples(examples, max_examples); each entry keeps the id of the
\* row it was made from.
_compact_examples(exs, max_examples) ==
    LET head == Take(exs, max_examples)
        shots == [i \in 1..Len(head) |-> FewShot(head[i])]
        kept(e) == e.id # NoId
    IN SelectSeq(shots, kept)

\* [dict(row) for row in cur.fetchall()]
RowDicts(rows, ids) ==
    [i \in 1..Len(ids) |->
        [id |-> ids[i], question |-> rows[ids[i]].question,
         generated_sql |-> rows[ids[i]].generated_sql,
         corrected_sql |-> rows[ids[i]].corrected_sql]]

-----------------------------------------------------------------------------
\* The workbooks uploaded in the model.

Sheet(name, columns, rows) == [name |-> name, columns |-> columns, rows |-> rows]

Workbook(name, sheets) == [name |-> name, sheets |-> sheets, valid |-> TRUE]

LongBase == [i \in 1..NameCap |-> "a"]

\* a.x: one sheet s
BookA == Workbook(<<"a", ".", "x">>, <<Sheet(<<"s">>, <<<<"c">>, <<"d", " ", "e">>>>, 2)>>)
\* a.x again with another column list
BookA2 == Workbook(<<"a", ".", "x">>, <<Sheet(<<"s">>, <<<<"c">>>>, 1)>>)
\* "a .x": sheets "s_2" and "s-": the names normalize to a_s_2 and a_s
BookB == Workbook(<<"a", " ", ".", "x">>,
                  <<Sheet(<<"s", "_", "2">>, <<<<"c">>>>, 0), Sheet(<<"s", "-">>, <<<<"d">>>>, 3)>>)
\* b.x: a good sheet, then a sheet whose columns "c" and "c " normalize to the same name
BookC == Workbook(<<"b", ".", "x">>,
                  <<Sheet(<<"s">>, <<<<"c">>>>, 1), Sheet(<<"t">>, <<<<"c">>, <<"c", " ">>>>, 1)>>)
\* a base name of 80 characters: both sheets' names are cut to the same 80
BookL == Workbook(LongBase \o <<".", "x">>,
                  <<Sheet(<<"s">>, <<<<"c">>>>, 1), Sheet(<<"t">>, <<<<"c">>>>, 1)>>)
\* bytes that are no workbook
BookBad == [name |-> <<"e", ".", "x">>, sheets |-> <<>>, valid |-> FALSE]

Workbooks == {BookA, BookA2, BookB, BookC, BookL, BookBad}

-----------------------------------------------------------------------------
Init ==
    /\ tables = [s \in Sessions |-> <<>>]
    /\ con = [s \in Sessions |-> [views |-> {}, nexec |-> 0]]
    /\ lastAdd = NoCall
    /\ lastRun = NoCall
    /\ catalog_sig = [s \in Sessions |-> NoCall]
    /\ feedback = <<>>
    /\ history = <<>>
    /\ examples = NoCall
    /\ few_shots = NoCall
    /\ uploads = <<>>
    /\ last_record_id = NoId
    /\ last_sql = None
    /\ last_question = None
    /\ lastAsk = NoCall

\* An upload into the one catalog of session s1.
AddFile ==
    \E f \in Workbooks, fail_at \in 0..2 :
        /\ fail_at <= Len(f.sheets)
        /\ Len(tables["s1"]) + Len(f.sheets) <= MaxTables
        /\ add_excel_file("s1", f, fail_at)
        /\ UNCHANGED <<logVars, appVars>>

CatalogNext == AddFile

CatalogSpec == Init /\ [][CatalogNext]_vars

\* C5: whenever add_excel_file has returned or raised, the tables registered
\* in the engine are exactly the identifiers of the catalog.
C5_EngineMatchesCatalog ==
    \A s \in Sessions : con[s].views = Keys(tables[s])

\* The identifier the code first tries for sheet j of a workbook.
Candidate(f, j) ==
    safe_name(safe_name(BaseName(f.name)) \o <<"_", "_">> \o f.sheets[j].name)

\* key is candidate, or candidate_k with candidate and candidate_2 ..
\* candidate_(k-1) all taken by the keys before it.
SuffixResolved(key, candidate, taken) ==
    \/ key = candidate
    \/ \E k \in 2..(Cardinality(taken) + 1) :
          /\ key = candidate \o <<"_">> \o Str(k)
          /\ candidate \in taken
          /\ \A m \in 2..(k - 1) : (candidate \o <<"_">> \o Str(m)) \in taken

\* C6: a successful add_excel_file of a workbook with N sheets appends exactly
\* N entries to the catalog, under identifiers that are new, pairwise
\* different and resolved by the incrementing suffix, and leaves every
\* earlier entry as it was.
C6_AddsNewIdentifiers ==
    (lastAdd.called /\ lastAdd.ok) =>
        LET before == lastAdd.before
            after == tables[lastAdd.session]
            n == Len(lastAdd.file.sheets)
        IN /\ Len(after) = Len(before) + n
           /\ \A i \in 1..Len(before) : after[i] = before[i]
           /\ Cardinality(Keys(after)) = Len(after)
           /\ \A j \in 1..n :
                 LET e == after[Len(before) + j]
                     taken == {after[i].key : i \in 1..(Len(before) + j - 1)}
                 IN /\ e.key \notin taken
                    /\ SuffixResolved(e.key, Candidate(lastAdd.file, j), taken)
                    /\ e.val.sheet = lastAdd.file.sheets[j].name

\* A two-sheet workbook went in over a catalog that already held tables, and
\* one of its tables got the suffix _3.
C6_Witness ==
    /\ lastAdd.called /\ lastAdd.ok
    /\ Len(lastAdd.file.sheets) = 2
    /\ Len(lastAdd.before) >= 1
    /\ <<"a", "_", "s", "_", "3">> \in Keys(tables["s1"])

\* A call to run_sql in session s1, once the caller is done with the call before.
RunSql ==
    \E sql \in SeqsOf(SqlAtoms, 0, MaxSqlLen) \cup {None}, engine_raises \in BOOLEAN :
        /\ ~lastRun.called
        /\ con["s1"].nexec < MaxExec
        /\ run_sql("s1", sql, engine_raises)
        /\ lastAdd' = NoCall
        /\ UNCHANGED <<tables, catalog_sig, logVars, appVars>>

\* The upload of the sample workbook into the empty catalog run_sql queries.
SqlAddFile ==
    /\ tables["s1"] = <<>>
    /\ add_excel_file("s1", BookA, 0)
    /\ UNCHANGED <<logVars, appVars>>

\* The caller is done with what run_sql returned or raised.
SqlReturn ==
    /\ lastRun.called
    /\ lastRun' = NoCall
    /\ UNCHANGED <<tables, con, lastAdd, catalog_sig, logVars, appVars>>

SqlNext == RunSql \/ SqlAddFile \/ SqlReturn

SqlSpec == Init /\ [][SqlNext]_vars

\* What the guard is said to accept: after trimming, no semicolon, no banned
\* keyword followed by a blank (whatever the case), and select or with first.
GuardAccepts(sql) ==
    LET text == TrimSql(sql)
    IN /\ \A i \in 1..Len(text) : text[i] # ";"
       /\ \A i \in 1..(Len(text) - 1) :
             ~(Lower(<<text[i]>>) \in
                 {<<"drop">>, <<"delete">>, <<"update">>, <<"insert">>, <<"create">>,
                  <<"alter">>, <<"truncate">>, <<"grant">>, <<"revoke">>}
               /\ text[i + 1] = " ")
       /\ Len(text) >= 1
       /\ Lower(<<text[1]>>) \in {<<"select">>, <<"with">>}

\* C1: whatever string run_sql is given and whatever the catalog holds, the
\* engine runs a statement in that call exactly when the guard accepts the
\* string; a rejected call raises and runs nothing.
C1_ExecutesOnlyAccepted ==
    lastRun.called =>
        /\ lastRun.executed <=> GuardAccepts(lastRun.sql)
        /\ lastRun.executed =>
              /\ con[lastRun.session].nexec = lastRun.nexec_before + 1
              /\ lastRun.stmt = Wrapped(TrimSql(lastRun.sql), DefaultLimit)
        /\ ~lastRun.executed =>
              /\ con[lastRun.session].nexec = lastRun.nexec_before
              /\ lastRun.stmt = None
              /\ lastRun.outcome \in {"semicolon", "destructive", "not a select"}

\* A query with a banned keyword inside was rejected over a catalog that holds a table.
C1_Witness ==
    /\ lastRun.called
    /\ lastRun.sql = <<"SELECT", "Drop", " ", "x">>
    /\ ~lastRun.executed
    /\ lastRun.outcome = "destructive"
    /\ lastRun.nexec_before >= 1
    /\ tables["s1"] # <<>>

-----------------------------------------------------------------------------
\* FeedbackStore under arbitrary calls.

\* Two schema signatures (the serialized schemas of two catalogs).
SampleSigs ==
    {Sha256Hex16(<< <<<<"a", "_", "s">>, <<<<"c">>>>>> >>),
     Sha256Hex16(<< <<<<"b", "_", "s">>, <<<<"c">>>>>> >>)}

SampleQuestions == {<<"q">>}
SampleSql == <<"SELECT", " ", "x">>
SampleCorrections == {None, <<"x", " ">>}
SampleTexts == {<<>>}
Ratings == {NullRating, 1, -1}

\* The second the clock shows: that of the newest row, or the next one.
Now == IF feedback = <<>> THEN {0}
       ELSE {feedback[Len(feedback)].created_at, feedback[Len(feedback)].created_at + 1}

AddRecord ==
    \E q \in SampleQuestions, sig \in SampleSigs, now \in Now :
        /\ Len(feedback) < MaxRecords
        /\ add_record(q, sig, SampleSql, now)
        /\ examples' = NoCall
        /\ UNCHANGED <<few_shots, storeVars, appVars>>

AddFeedback ==
    \E id \in 1..(Len(feedback) + 1), rating \in Ratings,
       text \in SampleTexts, corrected \in SampleCorrections :
        /\ add_feedback(id, rating, text, corrected)
        /\ examples' = NoCall
        /\ UNCHANGED <<few_shots, storeVars, appVars>>

BestExamples ==
    \E sig \in SampleSigs, limit \in 0..MaxLimit :
        \E ids \in best_examples(feedback, sig, limit) :
            /\ examples' = [called |-> TRUE, sig |-> sig, limit |-> limit, ids |-> ids]
            /\ UNCHANGED <<feedback, history, few_shots, storeVars, appVars>>

LogNext == AddRecord \/ AddFeedback \/ BestExamples

LogSpec == Init /\ [][LogNext]_vars

\* C2: what best_examples returned holds at most limit rows, each with the
\* fingerprint asked for and rating +1, rows carrying a correction before rows
\* without one, and in each of the two groups the row created later first.
C2_BestExamplesOrdered ==
    examples.called =>
        LET ids == examples.ids
        IN /\ Len(ids) <= examples.limit
           /\ \A i \in 1..Len(ids) :
                 /\ feedback[ids[i]].catalog_sig = examples.sig
                 /\ feedback[ids[i]].rating = 1
           /\ \A i, j \in 1..Len(ids) :
                 (HasCorrection(feedback[ids[i]]) /\ ~HasCorrection(feedback[ids[j]]))
                     => i < j
           /\ \A i, j \in 1..Len(ids) :
                 (i < j /\ HasCorrection(feedback[ids[i]]) = HasCorrection(feedback[ids[j]]))
                     => ids[i] > ids[j]

\* add_record and add_feedback alone, in any order.
RatingNext == AddRecord \/ AddFeedback

RatingSpec == Init /\ [][RatingNext]_vars

\* C3: every row's rating is the one the last add_feedback call that passed a
\* rating passed for it, and NULL when no call passed one.
C3_LastRatingWins ==
    \A i \in 1..Len(feedback) : feedback[i].rating = history[i].supplied

\* A row was rated twice or more, the last call passed no rating, and the
\* rating of the call before it is still there.
C3_Witness ==
    \E i \in 1..Len(feedback) :
        /\ history[i].nfb = 2
        /\ history[i].last = NullRating
        /\ feedback[i].rating = -1

-----------------------------------------------------------------------------
\* Two sessions, each with its own catalog, and the signatures of the two.

\* a.x with the columns of BookA in the other order
BookA3 == Workbook(<<"a", ".", "x">>, <<Sheet(<<"s">>, <<<<"d", " ", "e">>, <<"c">>>>, 2)>>)
\* b.x: one sheet s
BookD == Workbook(<<"b", ".", "x">>, <<Sheet(<<"s">>, <<<<"c">>>>, 5)>>)

SigBooks == {BookA, BookA2, BookA3, BookD}

SigAddFile ==
    \E s \in Sessions, f \in SigBooks :
        /\ Len(tables[s]) + Len(f.sheets) <= MaxSigTables
        /\ add_excel_file(s, f, 0)
        /\ UNCHANGED <<logVars, appVars>>

\* catalog_sig = store.catalog_signature() in session s
ComputeSig ==
    \E s \in Sessions :
        /\ ~catalog_sig[s].called
        /\ catalog_sig' = [catalog_sig EXCEPT
                              ![s] = [called |-> TRUE, sig |-> catalog_signature(tables[s])]]
        /\ UNCHANGED <<tables, con, lastAdd, lastRun, logVars, appVars>>

SigNext == SigAddFile \/ ComputeSig

SigSpec == Init /\ [][SigNext]_vars

\* The (table identifier, column list) pairs of a catalog.
Schema(d) == {<<d[i].key, d[i].val.cols>> : i \in 1..Len(d)}

\* C7: the signatures of two catalogs are equal exactly when the catalogs hold
\* the same (table identifier, column list) pairs, in whatever order the
\* tables were registered.
C7_SignatureOfSchema ==
    (catalog_sig["s1"].called /\ catalog_sig["s2"].called) =>
        ((catalog_sig["s1"].sig = catalog_sig["s2"].sig)
            <=> (Schema(tables["s1"]) = Schema(tables["s2"])))

\* Two catalogs hold the same two tables, registered in opposite orders, and
\* both signatures were computed.
C7_Witness ==
    /\ catalog_sig["s1"].called /\ catalog_sig["s2"].called
    /\ Len(tables["s1"]) = 2 /\ Len(tables["s2"]) = 2
    /\ Schema(tables["s1"]) = Schema(tables["s2"])
    /\ tables["s1"][1].key = tables["s2"][2].key
    /\ tables["s1"][1].key # tables["s1"][2].key

-----------------------------------------------------------------------------
\* The few-shot list built from a feedback table that earlier calls filled.

\* The limit app.py passes to top_examples.
TopLimit == 20

SigA == Sha256Hex16(<< <<<<"a", "_", "s">>, <<<<"c">>>>>> >>)

\* Rows as add_record and add_feedback leave them, all rated good: without a
\* correction, with a correction that ends in a blank, with a correction that
\* is one blank, and with a correction and an empty generated query.
StoredRows ==
    {[question |-> <<"q">>, catalog_sig |-> SigA, generated_sql |-> g,
      corrected_sql |-> c, rating |-> 1, feedback_text |-> <<>>] :
        <<c, g>> \in {<<None, SampleSql>>, <<<<"x", " ">>, SampleSql>>,
                      <<<<" ">>, SampleSql>>, <<<<"x", " ">>, <<>>>>}}

\* A feedback table of up to MaxRows rows, one created per second.
CompactInit ==
    /\ tables = [s \in Sessions |-> <<>>]
    /\ con = [s \in Sessions |-> [views |-> {}, nexec |-> 0]]
    /\ lastAdd = NoCall
    /\ lastRun = NoCall
    /\ catalog_sig = [s \in Sessions |-> NoCall]
    /\ \E rows \in SeqsOf(StoredRows, 0, MaxRows) :
          /\ feedback = [i \in 1..Len(rows) |->
                            [question |-> rows[i].question,
                             catalog_sig |-> rows[i].catalog_sig,
                             generated_sql |-> rows[i].generated_sql,
                             corrected_sql |-> rows[i].corrected_sql,
                             rating |-> rows[i].rating,
                             feedback_text |-> rows[i].feedback_text,
                             created_at |-> i]]
          /\ history = [i \in 1..Len(rows) |->
                           [nfb |-> 1, supplied |-> rows[i].rating, last |-> rows[i].rating,
                            corrected |-> rows[i].corrected_sql \notin {None, <<>>}]]
    /\ examples = NoCall
    /\ few_shots = NoCall
    /\ uploads = <<>>
    /\ last_record_id = NoId
    /\ last_sql = None
    /\ last_question = None
    /\ lastAsk = NoCall

\* examples = feedback_db.top_examples(catalog_sig, limit=20)
TopExamples ==
    \E ids \in top_examples(feedback, SigA, TopLimit) :
        /\ ~examples.called
        /\ examples' = [called |-> TRUE, sig |-> SigA, limit |-> TopLimit, ids |-> ids]
        /\ UNCHANGED <<feedback, history, few_shots, storeVars, appVars>>

\* few_shots = _compact_examples(examples, max_examples=5)
CompactExamples ==
    /\ examples.called
    /\ ~few_shots.called
    /\ few_shots' = [called |-> TRUE,
                     shots |-> _compact_examples(RowDicts(feedback, examples.ids), MaxExamples)]
    /\ UNCHANGED <<feedback, history, examples, storeVars, appVars>>

CompactNext == TopExamples \/ CompactExamples

CompactSpec == CompactInit /\ [][CompactNext]_vars

\* shots is made, in order, of rows among the first n of ids.
FromHead(shots, ids, n) ==
    /\ \A k \in 1..Len(shots) : \E i \in 1..n : i <= Len(ids) /\ ids[i] = shots[k].id
    /\ \A k, l \in 1..Len(shots) :
          k < l => \E i, j \in 1..Len(ids) : i < j /\ ids[i] = shots[k].id /\ ids[j] = shots[l].id

\* A row has a corrected query.
HasCorrected(row) == row.corrected_sql # None /\ row.corrected_sql # <<>>

\* A row has a corrected and a generated query.
HasBoth(row) == HasCorrected(row) /\ row.generated_sql # <<>>

Stripped(sql) == Strip(sql, Whitespace)

-----------------------------------------------------------------------------
\* llm_agent.py: generate_sql, and app.py: one run of the script per interaction.

\* What the planner call may yield: the request fails, the output text is no
\* JSON, or it is a plan whose sql is a text or null.
PlannerSqls ==
    {<<"SELECT", " ", "x">>, <<" ", "SELECT", " ", "x", ";">>, <<"Drop", " ", "x">>,
     <<"SELECT", ";", "Drop", " ", "x">>, <<"with", " ", "Drop", " ", "x">>, None}

PlannerOutputs ==
    {[kind |-> "unavailable", sql |-> None], [kind |-> "malformed", sql |-> None]}
        \cup {[kind |-> "plan", sql |-> s] : s \in PlannerSqls}

\* generate_sql(question, catalog, examples): the few-shot list is built, the
\* planner is called, and its sql goes through _sanitize_sql; each failure
\* raises out of the function.
generate_sql(exs, planner) ==
    LET shots == _compact_examples(exs, MaxExamples)
        v == _sanitize_sql(planner.sql)
    IN IF planner.kind = "unavailable"
       THEN [ok |-> FALSE, error |-> "planner unavailable", few_shots |-> shots]
       ELSE IF planner.kind = "malformed"
       THEN [ok |-> FALSE, error |-> "malformed output", few_shots |-> shots]
       ELSE IF ~v.ok
       THEN [ok |-> FALSE, error |-> v.error, few_shots |-> shots]
       ELSE [ok |-> TRUE, sql |-> v.sql, few_shots |-> shots]

\* The workbooks the user uploads in the running app.
AppBooks == {BookA}

\* for f in uploads: store.add_excel_file(f.name, f.read())
RECURSIVE AddUploads(_, _, _)
AddUploads(st, files, n) ==
    IF n = 0 THEN st
    ELSE LET before == AddUploads(st, files, n - 1)
         IN IF before.ok THEN AddExcelFile(before, files[n], 0) ELSE before

\* The head of every run of the script: the files the uploader holds are
\* added to the store again.
Rerun(s, files) == AddUploads(Store(s), files, Len(files))

\* The number of sheets of a list of workbooks.
RECURSIVE SheetCount(_)
SheetCount(files) ==
    IF files = <<>> THEN 0 ELSE Len(Head(files).sheets) + SheetCount(Tail(files))

\* What the text area holds when Submit improvement is clicked.
CorrectedInputs == {<<>>, <<" ">>, <<";">>, <<"x", " ", ";">>}

\* corrected.strip().rstrip(";") if corrected and corrected.strip() else None
CorrectedSql(corrected) ==
    IF corrected # <<>> /\ Strip(corrected, Whitespace) # <<>>
    THEN RStrip(Strip(corrected, Whitespace), {";"})
    ELSE None

ImprovementText == <<"User provided corrected SQL">>

\* What a run that handles no question leaves of the last question's locals.
NoQuestion ==
    /\ examples' = NoCall
    /\ few_shots' = NoCall
    /\ lastAsk' = NoCall
    /\ lastRun' = NoCall
    /\ catalog_sig' = [catalog_sig EXCEPT !["s1"] = NoCall]

\* The store after the head of the run; nexec statements were run by now.
StoreAfter(st, nexec) ==
    /\ tables' = [tables EXCEPT !["s1"] = st.tables]
    /\ con' = [con EXCEPT !["s1"] = [views |-> st.views, nexec |-> nexec]]
    /\ lastAdd' = NoCall

\* The user adds files to the uploader or clears it; the script runs.
ChangeUploads ==
    \E files \in {<<>>} \cup {<<f>> : f \in AppBooks} :
        LET st == Rerun("s1", files)
        IN /\ files # uploads
           /\ Len(tables["s1"]) + SheetCount(files) <= MaxAppTables
           /\ uploads' = files
           /\ StoreAfter(st, con["s1"].nexec)
           /\ NoQuestion
           /\ UNCHANGED <<feedback, history, last_record_id, last_sql, last_question>>

\* What handling a question leaves in lastAsk.
AskRecord(planner, outcome) ==
    [called |-> TRUE, planner |-> planner, outcome |-> outcome,
     rows_before |-> Len(feedback), nexec_before |-> con["s1"].nexec]

\* The planner was not called.
NoPlanner == [kind |-> "not called", sql |-> None]

\* The user asks a question; the script runs and handles it.
Ask ==
    \E q \in SampleQuestions, planner \in PlannerOutputs, engine_raises \in BOOLEAN,
       now \in Now :
        LET st == Rerun("s1", uploads)
            sig == catalog_signature(st.tables)
        IN /\ Len(tables["s1"]) + SheetCount(uploads) <= MaxAppTables
           /\ Len(feedback) < MaxAppRecords
           /\ UNCHANGED uploads
           /\ IF ~st.ok
              THEN /\ StoreAfter(st, con["s1"].nexec)
                   /\ NoQuestion
                   /\ UNCHANGED <<feedback, history, last_record_id, last_sql,
                                  last_question>>
              ELSE IF st.tables = <<>>
              THEN /\ StoreAfter(st, con["s1"].nexec)
                   /\ last_question' = q
                   /\ examples' = NoCall
                   /\ few_shots' = NoCall
                   /\ lastRun' = NoCall
                   /\ catalog_sig' = [catalog_sig EXCEPT !["s1"] = NoCall]
                   /\ lastAsk' = AskRecord(NoPlanner, "no catalog")
                   /\ UNCHANGED <<feedback, history, last_record_id, last_sql>>
              ELSE \E ids \in top_examples(feedback, sig, TopLimit) :
                     LET plan == generate_sql(RowDicts(feedback, ids), planner)
                         sql == RStrip(Strip(Or(plan.sql, <<>>), Whitespace), {";"})
                         r == RunSqlResult(sql, engine_raises)
                     IN /\ last_question' = q
                        /\ catalog_sig' = [catalog_sig EXCEPT
                                              !["s1"] = [called |-> TRUE, sig |-> sig]]
                        /\ examples' = [called |-> TRUE, sig |-> sig,
                                        limit |-> TopLimit, ids |-> ids]
                        /\ few_shots' = [called |-> TRUE, shots |-> plan.few_shots]
                        /\ IF ~plan.ok
                           THEN /\ StoreAfter(st, con["s1"].nexec)
                                /\ lastRun' = NoCall
                                /\ lastAsk' = AskRecord(planner, plan.error)
                                /\ UNCHANGED <<feedback, history, last_record_id,
                                               last_sql>>
                           ELSE /\ add_record(q, sig, sql, now)
                                /\ last_record_id' = Len(feedback) + 1
                                /\ last_sql' = sql
                                /\ StoreAfter(st, IF r.executed THEN con["s1"].nexec + 1
                                                  ELSE con["s1"].nexec)
                                /\ lastRun' = RunRecord("s1", sql, r, con["s1"].nexec)
                                /\ lastAsk' = AskRecord(planner, "answered")

\* A click on one of the three feedback buttons; the script runs, and the
\* button's add_feedback call is made if there is a last record.
HandleFeedback(rating, feedback_text, corrected_sql) ==
    LET st == Rerun("s1", uploads)
    IN /\ Len(tables["s1"]) + SheetCount(uploads) <= MaxAppTables
       /\ last_record_id # NoId
       /\ StoreAfter(st, con["s1"].nexec)
       /\ NoQuestion
       /\ IF st.ok
          THEN add_feedback(last_record_id, rating, feedback_text, corrected_sql)
          ELSE UNCHANGED <<feedback, history>>
       /\ UNCHANGED <<uploads, last_record_id, last_sql, last_question>>

\* fb_yes: add_feedback(last_record_id, rating=1)
ClickYes == HandleFeedback(1, <<>>, None)

\* fb_no: add_feedback(last_record_id, rating=-1)
ClickNo == HandleFeedback(-1, <<>>, None)

\* fb_submit: add_feedback(rid, rating=-1, "User provided corrected SQL", corrected_sql)
SubmitImprovement ==
    \E corrected \in CorrectedInputs :
        HandleFeedback(-1, ImprovementText, CorrectedSql(corrected))

AppNext == ChangeUploads \/ Ask \/ ClickYes \/ ClickNo \/ SubmitImprovement

AppSpec == Init /\ [][AppNext]_vars

\* The planner gave no query the guard accepts.
PlannerFailed(planner) ==
    planner.kind \in {"unavailable", "malformed"} \/ ~GuardAccepts(planner.sql)

\* C8: when the planner call fails, returns malformed output or returns a
\* query the guard rejects, handling the question adds no row to the feedback
\* table and runs no statement; otherwise the row added and the statement run
\* hold the planner's query as the guard returned it.
C8_PlannerOutputGuarded ==
    (lastAsk.called /\ lastAsk.planner.kind # "not called") =>
        IF PlannerFailed(lastAsk.planner)
        THEN /\ Len(feedback) = lastAsk.rows_before
             /\ con["s1"].nexec = lastAsk.nexec_before
             /\ ~lastRun.called
        ELSE /\ Len(feedback) = lastAsk.rows_before + 1
             /\ feedback[Len(feedback)].generated_sql = TrimSql(lastAsk.planner.sql)
             /\ lastRun.called /\ lastRun.executed
             /\ lastRun.stmt = Wrapped(TrimSql(lastAsk.planner.sql), DefaultLimit)

\* A question was asked over a loaded catalog and an earlier record, and the
\* planner returned a query with a second, destructive statement.
C8_Witness ==
    /\ lastAsk.called
    /\ lastAsk.planner = [kind |-> "plan", sql |-> <<"SELECT", ";", "Drop", " ", "x">>]
    /\ lastAsk.outcome = "semicolon"
    /\ tables["s1"] # <<>>
    /\ Len(feedback) >= 1

Written(row) == <<row.rating, row.corrected_sql, row.feedback_text>>

\* The columns add_record sets.
Fixed(row) == <<row.question, row.catalog_sig, row.generated_sql, row.created_at>>

\* C4 as stated: once a row has had its first feedback submission, its
\* rating, corrected query and feedback text never change again.
C4_MutatedAtMostOnce ==
    [][\A i \in 1..Len(feedback) :
          history[i].nfb >= 1 => Written(feedback'[i]) = Written(feedback[i])]_vars

\* C4 amended: rows are added one at a time, when a question is answered,
\* with rating, correction and feedback text unset; no row is ever deleted;
\* what add_record set never changes; and rating, correction and feedback
\* text change only in the row a feedback submission addresses.
C4_CreatedOnceNeverDeleted ==
    [][/\ Len(feedback') >= Len(feedback)
       /\ Len(feedback') > Len(feedback) =>
             /\ Len(feedback') = Len(feedback) + 1
             /\ lastAsk'.called /\ lastAsk'.outcome = "answered"
             /\ Written(feedback'[Len(feedback')]) = <<NullRating, None, None>>
       /\ \A i \in 1..Len(feedback) :
             /\ Fixed(feedback'[i]) = Fixed(feedback[i])
             /\ Written(feedback'[i]) # Written(feedback[i]) =>
                   /\ i = last_record_id
                   /\ history'[i].nfb >= 1
                   /\ ~lastAsk'.called]_vars

\* A row other than the first has had two feedback submissions that left it
\* rated bad with a correction.
C4_Witness ==
    \E i \in 2..Len(feedback) :
        /\ history[i].nfb = 2
        /\ feedback[i].rating = -1
        /\ HasCorrected(feedback[i])

====
